---- MODULE Spec2Model ----
(***************************************************************************)
(* A model of the double entry graph (sketch/utils/structures/Graph.ts)    *)
(* and of the PackageManager built on it (sketch/core/packageManager.ts).  *)
(*                                                                         *)
(* Objects are modelled by their identity.  A TwoWayNode is an index into  *)
(* `heap` (its position is the order in which `new TwoWayNode` ran); a     *)
(* OneWayNode is identified by the (level, key) slot that holds it, since  *)
(* validateKey never lets a slot be overwritten.  Keys range over ordinary *)
(* strings, the empty string included; names of properties inherited from  *)
(* Object.prototype ("constructor", ...) are outside the modelled key set. *)
(***************************************************************************)
EXTENDS Integers, Sequences, FiniteSets, TLC

----------------------------------------------------------------------------
(* Bounds of the model *)

\* most adjacency edges (entries of all `to` lists together) a graph may hold
MaxEdges == 4
\* most TwoWayNodes ever constructed
MaxNodes == 4
\* most identifiers uuid() hands out
MaxGroups == 2
\* most calls of the iterator's next() one getAll() walk is followed for
MaxCalls == 3

----------------------------------------------------------------------------
(* Values of the program *)

\* the null reference held by head, tail, next and prev
Null == 0
\* the null stored in the element field of a deleted node
NullElement == "null"
\* what `next?.element` yields once the cursor is null or undefined
Undefined == "undefined"

\* the stored elements T: three Module objects, compared by identity (===)
Vals == {"m1", "m2", "m3"}
\* Module.name of each element: two modules share a name, one has the empty name
Name(mod) == CASE mod = "m1" -> "a" [] mod = "m2" -> "a" [] mod = "m3" -> ""
\* the key strings callers pass
Keys == {"", "a"}
\* the two namespaces
Levels == {"top", "bottom"}
\* the identifiers uuid() returns, in the order it returns them
UuidNames == <<"g1", "g2", "g3">>
uuid(n) == UuidNames[n + 1]

\* an argument of type X | X[] (and, for keys, possibly absent)
One(x) == [kind |-> "one", v |-> <<x>>]
Arr(s) == [kind |-> "array", v |-> s]
Absent == [kind |-> "undefined", v |-> <<>>]

\* forceArray of utils/list: an array is kept, anything else is wrapped
forceArray(x) == IF x.kind = "array" THEN x.v
                 ELSE IF x.kind = "one" THEN x.v
                 ELSE <<Undefined>>

\* capitalize of utils/string, as used to pick addTop / addBottom
capitalize(level) == IF level = "top" THEN "Top" ELSE "Bottom"

\* JavaScript truthiness of a key: "" and undefined are falsy
Truthy(key) == key # "" /\ key # Undefined

----------------------------------------------------------------------------
(* The Graph object and the heap of TwoWayNodes *)

\* new Graph(): empty records, head and tail null
EmptyFun == [k \in {} |-> <<>>]
NewGraph == [top |-> EmptyFun, bottom |-> EmptyFun, head |-> Null, tail |-> Null,
             heap |-> <<>>]

\* new TwoWayNode(item)
NewTwoWayNode(item) ==
  [element |-> item, top |-> <<>>, bottom |-> <<>>, next |-> Null, prev |-> Null]

\* this[level]
Slot(G, level) == IF level = "top" THEN G.top ELSE G.bottom

\* a validateKey that lets every key through, present or not
validateKeyAlways(key, obj) == TRUE

\* validateKey: true when the key is not yet present
validateKey(key, obj) == ~(key \in DOMAIN obj)

\* validateElement: true when the key is present
validateElement(key, obj) == key \in DOMAIN obj

\* obj[key] = new OneWayNode(): a slot with an empty `to`
WithKey(obj, key) == [k \in (DOMAIN obj) \cup {key} |-> IF k = key THEN <<>> ELSE obj[k]]

addTop(G, key) ==
  IF validateKey(key, G.top) THEN [G EXCEPT !.top = WithKey(G.top, key)] ELSE G

addBottom(G, key) ==
  IF validateKey(key, G.bottom) THEN [G EXCEPT !.bottom = WithKey(G.bottom, key)] ELSE G

\* a scan that looks at the node it is given and at the tail, and no further
findNoRecursion(G, obj, next) ==
  IF next = Null THEN Null
  ELSE IF G.heap[next].element = obj THEN next
  ELSE IF G.heap[G.tail].element = obj THEN G.tail
  ELSE Null

\* find(obj, next = this.head): the recursive identity scan
RECURSIVE findFrom(_, _, _)
findFrom(G, obj, next) ==
  IF next = Null THEN Null
  ELSE IF G.heap[next].element = obj THEN next
  ELSE IF G.heap[G.tail].element = obj THEN G.tail
  ELSE findFrom(G, obj, G.heap[next].next)

find(G, obj) == findFrom(G, obj, G.head)

\* chaining that leaves out `node.prev = this.tail`
ChainNewNodeNoPrev(G, element) ==
  LET id == Len(G.heap) + 1
      linked == IF G.tail # Null
                THEN [G.heap EXCEPT ![G.tail].next = id]
                ELSE G.heap
  IN [G EXCEPT !.heap = Append(linked, NewTwoWayNode(element)),
               !.head = IF G.head = Null THEN id ELSE G.head,
               !.tail = id]

\* the body of elements.forEach when find returned null: construct and chain a node
ChainNewNode(G, element) ==
  LET id == Len(G.heap) + 1
      node == [NewTwoWayNode(element) EXCEPT !.prev = G.tail]
      linked == IF G.tail # Null
                THEN [G.heap EXCEPT ![G.tail].next = id]
                ELSE G.heap
  IN [G EXCEPT !.heap = Append(linked, node),
               !.head = IF G.head = Null THEN id ELSE G.head,
               !.tail = id]

\* the same with `unshift` in place of `push` in OneWayNode.add
LinkNodeUnshift(G, level, key, id) ==
  IF level = "top"
  THEN [G EXCEPT !.top[key] = <<id>> \o @, !.heap[id].top = Append(@, key)]
  ELSE [G EXCEPT !.bottom[key] = <<id>> \o @, !.heap[id].bottom = Append(@, key)]

\* linking that leaves out a node the key's entry already holds
LinkNodeOnce(G, level, key, id) ==
  IF \E i \in 1..Len(Slot(G, level)[key]) : Slot(G, level)[key][i] = id THEN G
  ELSE IF level = "top"
  THEN [G EXCEPT !.top[key] = Append(@, id), !.heap[id].top = Append(@, key)]
  ELSE [G EXCEPT !.bottom[key] = Append(@, id), !.heap[id].bottom = Append(@, key)]

\* linking that leaves out `node.add(level, this[level][key])`
LinkNodeOneWay(G, level, key, id) ==
  IF level = "top"
  THEN [G EXCEPT !.top[key] = Append(@, id)]
  ELSE [G EXCEPT !.bottom[key] = Append(@, id)]

\* OneWayNode.add on this[level][key] followed by TwoWayNode.add(level, ...)
LinkNode(G, level, key, id) ==
  IF level = "top"
  THEN [G EXCEPT !.top[key] = Append(@, id), !.heap[id].top = Append(@, key)]
  ELSE [G EXCEPT !.bottom[key] = Append(@, id), !.heap[id].bottom = Append(@, key)]

\* one turn of elements.forEach in addElementToGraph
AddOneElement(G, level, key, element) ==
  LET found == find(G, element)
      G1 == IF found = Null THEN ChainNewNode(G, element) ELSE G
      node == IF found = Null THEN G1.tail ELSE found
  IN LinkNode(G1, level, key, node)

RECURSIVE AddElements(_, _, _, _)
AddElements(G, level, key, elements) ==
  IF elements = <<>> THEN G
  ELSE AddElements(AddOneElement(G, level, key, Head(elements)), level, key, Tail(elements))

\* an addElementToGraph that works on this.top whatever the level given
addElementToGraphTop(G, level, key, element) ==
  LET G1 == IF ~validateElement(key, G.top) THEN addTop(G, key) ELSE G
  IN AddElements(G1, "top", key, forceArray(element))

\* addElementToGraph: declare the key when absent, then link every element
addElementToGraph(G, level, key, element) ==
  LET G1 == IF ~validateElement(key, Slot(G, level))
            THEN (IF capitalize(level) = "Top" THEN addTop(G, key) ELSE addBottom(G, key))
            ELSE G
  IN AddElements(G1, level, key, forceArray(element))

addElementTop(G, key, element) == addElementToGraph(G, "top", key, element)

addElementBottom(G, key, element) == addElementToGraph(G, "bottom", key, element)

\* tops.forEach(key => key && this.addTop(key, true).addElementTop(key, element))
RECURSIVE AddUnderTops(_, _, _)
AddUnderTops(G, tops, element) ==
  IF tops = <<>> THEN G
  ELSE AddUnderTops(
         IF Truthy(Head(tops)) THEN addElementTop(addTop(G, Head(tops)), Head(tops), element)
         ELSE G,
         Tail(tops), element)

\* bottoms.forEach(key => key && this.addBottom(key, true).addElementBottom(key, element))
RECURSIVE AddUnderBottoms(_, _, _)
AddUnderBottoms(G, bottoms, element) ==
  IF bottoms = <<>> THEN G
  ELSE AddUnderBottoms(
         IF Truthy(Head(bottoms))
         THEN addElementBottom(addBottom(G, Head(bottoms)), Head(bottoms), element)
         ELSE G,
         Tail(bottoms), element)

\* Graph.add(options)
add(G, options) ==
  AddUnderBottoms(AddUnderTops(G, forceArray(options.top), options.element),
                  forceArray(options.bottom), options.element)

\* Graph.addAll(optionsArr)
RECURSIVE addAll(_, _)
addAll(G, optionsArr) ==
  IF optionsArr = <<>> THEN G ELSE addAll(add(G, Head(optionsArr)), Tail(optionsArr))

----------------------------------------------------------------------------
(* Lookups.  A call ends normally with a value or in a thrown TypeError. *)

Ok(op, arg, value) == [op |-> op, arg |-> arg, status |-> "ok", value |-> value]
Thrown(op, arg) == [op |-> op, arg |-> arg, status |-> "error", value |-> <<>>]
\* no call has returned anything the caller still holds
NoResult == [op |-> "none", arg |-> <<>>, status |-> "ok", value |-> <<>>]

\* to.map(node => node.element)
Elements(G, to) == [i \in 1..Len(to) |-> G.heap[to[i]].element]

\* a lookup that takes a missing slot for an empty one (this.top[key]?.to ?? [])
getTopLenient(G, key) ==
  IF key \in DOMAIN G.top THEN Ok("getTop", <<key>>, Elements(G, G.top[key]))
  ELSE Ok("getTop", <<key>>, <<>>)

\* this.top[key].to.map(...): reading `to` of undefined throws
getTop(G, key) ==
  IF key \in DOMAIN G.top THEN Ok("getTop", <<key>>, Elements(G, G.top[key]))
  ELSE Thrown("getTop", <<key>>)

\* a lookup that throws for a key with nothing linked to it
getBottomNonEmpty(G, key) ==
  IF key \in DOMAIN G.bottom /\ G.bottom[key] # <<>>
  THEN Ok("getBottom", <<key>>, Elements(G, G.bottom[key]))
  ELSE Thrown("getBottom", <<key>>)

getBottom(G, key) ==
  IF key \in DOMAIN G.bottom THEN Ok("getBottom", <<key>>, Elements(G, G.bottom[key]))
  ELSE Thrown("getBottom", <<key>>)

\* flatten(map(prop("to"), ones)): the `to` lists of the given slots, concatenated
RECURSIVE FlattenTo(_, _)
FlattenTo(slot, ones) ==
  IF ones = <<>> THEN <<>> ELSE slot[Head(ones)] \o FlattenTo(slot, Tail(ones))

\* node[otherLevel]
NodeSide(node, level) == IF level = "top" THEN node.top ELSE node.bottom

\* siblings taken through the node's entries of the level asked for, not the other
SiblingsOfSameLevel(G, level, id) ==
  Elements(G, FlattenTo(Slot(G, level), NodeSide(G.heap[id], level)))

\* the siblings computed for one node of this[level][key].to
SiblingsOf(G, level, id) ==
  LET otherLevel == IF level = "top" THEN "bottom" ELSE "top"
  IN Elements(G, FlattenTo(Slot(G, otherLevel), NodeSide(G.heap[id], otherLevel)))

getSiblings(G, level, key) ==
  IF key \in DOMAIN Slot(G, level)
  THEN Ok("getSiblings", <<level, key>>,
          [i \in 1..Len(Slot(G, level)[key]) |->
             [data |-> G.heap[Slot(G, level)[key][i]].element,
              siblings |-> SiblingsOf(G, level, Slot(G, level)[key][i])]])
  ELSE Thrown("getSiblings", <<level, key>>)

----------------------------------------------------------------------------
(* Deletion of a node *)

\* without([node], to): every occurrence of the node is dropped.  ramda compares
\* with R.equals; the stored elements differ structurally from one another, so
\* two nodes are equal only when they are the same node
RECURSIVE without(_, _)
without(id, to) ==
  IF to = <<>> THEN <<>>
  ELSE IF Head(to) = id THEN without(id, Tail(to))
  ELSE <<Head(to)>> \o without(id, Tail(to))

\* this.top.forEach(node => node.remove(this)), on the slots of one level
RECURSIVE RemoveFromSlots(_, _, _)
RemoveFromSlots(slot, ones, id) ==
  IF ones = <<>> THEN slot
  ELSE RemoveFromSlots([slot EXCEPT ![Head(ones)] = without(id, @)], Tail(ones), id)

\* TwoWayNode.delete: leave the key slots, then null every field of the node.
\* A null `top` or `bottom` is held as the empty list; the element is NullElement.
delete(G, id) ==
  [G EXCEPT !.top = RemoveFromSlots(G.top, G.heap[id].top, id),
            !.bottom = RemoveFromSlots(G.bottom, G.heap[id].bottom, id),
            !.heap[id] = [element |-> NullElement, top |-> <<>>, bottom |-> <<>>,
                          next |-> Null, prev |-> Null]]

----------------------------------------------------------------------------
(* PackageManager *)

\* mods.forEach(mod => this.map.addElementBottom(mod.name, mod)), up to a mod
\* that is undefined, where reading `name` throws
RECURSIVE AddByName(_, _)
AddByName(G, mods) ==
  IF mods = <<>> \/ Head(mods) = Undefined THEN G
  ELSE AddByName(addElementBottom(G, Name(Head(mods)), One(Head(mods))), Tail(mods))

\* whether the forEach over mods runs to its end
NamesReadable(mods) == \A i \in 1..Len(mods) : mods[i] # Undefined

\* the same with one identifier used for every group instead of a fresh uuid()
pmAddSharedId(G, id, mods) == AddByName(addElementTop(G, UuidNames[1], Arr(mods)), mods)

\* PackageManager.add(mods) with the identifier uuid() returned
pmAdd(G, id, mods) == AddByName(addElementTop(G, id, Arr(mods)), mods)

\* PackageManager.get(id)
pmGet(G, id) == [getTop(G, id) EXCEPT !.op = "get"]

\* an array in place of the Set: uMods.push(mod) for every mod of one lookup
SetAddAllPush(uMods, mods) == uMods \o mods

\* uMods.add(mod) for every mod of one lookup: a Set keeps first insertion order
RECURSIVE SetAddAll(_, _)
SetAddAll(uMods, mods) ==
  IF mods = <<>> THEN uMods
  ELSE SetAddAll(IF \E i \in 1..Len(uMods) : uMods[i] = Head(mods)
                 THEN uMods ELSE Append(uMods, Head(mods)),
                 Tail(mods))

\* mods.forEach(name => getBottom(name).forEach(...)): "thrown" when a lookup throws
RECURSIVE CollectByMod(_, _, _)
CollectByMod(G, names, uMods) ==
  IF names = <<>> THEN Ok("getByMod", <<>>, uMods)
  ELSE IF getBottom(G, Head(names)).status = "error" THEN Thrown("getByMod", <<>>)
  ELSE CollectByMod(G, Tail(names), SetAddAll(uMods, getBottom(G, Head(names)).value))

\* PackageManager.getByMod(names)
getByMod(G, names) == [CollectByMod(G, forceArray(names), <<>>) EXCEPT !.arg = forceArray(names)]

\* PackageManager.remove(id): the body is a TODO, the graph is returned as it is
pmRemove(G, id) == G

----------------------------------------------------------------------------
(* State *)

VARIABLES
  graph,     \* PackageManager.map: the Graph (top, bottom, head, tail) and its nodes
  uuids,     \* how many identifiers uuid() has returned
  result,    \* what the last call returned to its caller, until the caller goes on
  pc,        \* "idle", or "walking" while getAll() runs its for-of loop
  cursor,    \* the iterator's closure variable `next`
  returns,   \* getAll's local array `returns`
  calls,     \* how often the running walk has called next()
  declared,  \* history: per level, the keys callers declared or associated under
  assoc,     \* history: per level and key, the values callers asked to associate
  inserted,  \* history: the distinct values in the order callers first inserted them
  noRemoval  \* history: no node has been deleted; the histories are kept while so
             \* and dropped at the first deletion

vars == <<graph, uuids, result, pc, cursor, returns, calls, declared, assoc, inserted, noRemoval>>

\* every key string a slot can be made for
TopKeys == Keys \cup {UuidNames[i] : i \in 1..Len(UuidNames)}
BottomKeys == Keys

\* arguments callers pass
ElementArgs == {One(v) : v \in Vals}
               \cup {Arr(<<>>), Arr(<<"m1", "m2">>), Arr(<<"m2", "m2">>), Arr(<<"m3", "m1">>)}
KeyArgs == {Absent, One("a"), One(""), Arr(<<"", "a">>)}
AddOptions == [top : KeyArgs, bottom : KeyArgs, element : {One("m1"), Arr(<<"m3", "m2">>)}]
AddAllOptions == {[top |-> One("a"), bottom |-> One("a"), element |-> One("m1")],
                  [top |-> Absent, bottom |-> Arr(<<"a", "">>), element |-> One("m2")],
                  [top |-> One("a"), bottom |-> Absent, element |-> Arr(<<"m3", "m1">>)]}
AddAllArgs == [1..0 -> AddAllOptions] \cup [1..1 -> AddAllOptions] \cup [1..2 -> AddAllOptions]
ModArgs == {<<>>, <<"m1">>, <<"m3">>, <<"m1", "m2">>, <<"m2", "m1">>, <<"m2", "m2">>,
            <<Undefined>>, <<"m1", Undefined>>}
NameArgs == {One("a"), One(""), Arr(<<>>), Arr(<<"a", "a">>), Arr(<<"a", "">>)}

\* the adjacency edges a graph holds
RECURSIVE SumLen(_, _)
SumLen(slot, keys) ==
  IF keys = {} THEN 0
  ELSE LET k == CHOOSE k \in keys : TRUE IN Len(slot[k]) + SumLen(slot, keys \ {k})

TotalEdges(G) == SumLen(G.top, DOMAIN G.top) + SumLen(G.bottom, DOMAIN G.bottom)

\* room for so many more edges / the nodes constructed stay within the bound
RoomFor(requests) == TotalEdges(graph) + Len(requests) <= MaxEdges
NodesWithinBound(G) == Len(G.heap) <= MaxNodes

\* the caller is between calls
Idle == result = NoResult /\ pc = "idle"

----------------------------------------------------------------------------
(* History of what callers asked for: sequences of <<level, key, value>> *)

RequestsFor(level, key, values) == [i \in 1..Len(values) |-> <<level, key, values[i]>>]

RECURSIVE RequestsForKeys(_, _, _)
RequestsForKeys(level, keys, values) ==
  IF keys = <<>> THEN <<>>
  ELSE (IF Head(keys) = "" THEN <<>> ELSE RequestsFor(level, Head(keys), values))
       \o RequestsForKeys(level, Tail(keys), values)

RequestsOfAdd(options) ==
  RequestsForKeys("top", options.top.v, options.element.v)
  \o RequestsForKeys("bottom", options.bottom.v, options.element.v)

RECURSIVE RequestsOfAddAll(_)
RequestsOfAddAll(optionsArr) ==
  IF optionsArr = <<>> THEN <<>>
  ELSE RequestsOfAdd(Head(optionsArr)) \o RequestsOfAddAll(Tail(optionsArr))

RECURSIVE RequestsByName(_)
RequestsByName(mods) ==
  IF mods = <<>> \/ Head(mods) = Undefined THEN <<>>
  ELSE <<<<"bottom", Name(Head(mods)), Head(mods)>>>> \o RequestsByName(Tail(mods))

RequestsOfPmAdd(id, mods) == RequestsFor("top", id, mods) \o RequestsByName(mods)

RECURSIVE Logged(_, _)
Logged(log, requests) ==
  IF requests = <<>> THEN log
  ELSE Logged([log EXCEPT ![Head(requests)[1]][Head(requests)[2]] = Append(@, Head(requests)[3])],
              Tail(requests))

RECURSIVE FirstSeen(_, _)
FirstSeen(seen, requests) ==
  IF requests = <<>> THEN seen
  ELSE FirstSeen(IF \E i \in 1..Len(seen) : seen[i] = Head(requests)[3]
                 THEN seen ELSE Append(seen, Head(requests)[3]),
                 Tail(requests))

\* the truthy keys among those given, as a set
NamedKeys(keys) == {keys[i] : i \in 1..Len(keys)} \ {"", Undefined}

\* the names PackageManager.add reads before it meets an undefined mod
RECURSIVE NamesRead(_)
NamesRead(mods) ==
  IF mods = <<>> \/ Head(mods) = Undefined THEN {}
  ELSE {Name(Head(mods))} \cup NamesRead(Tail(mods))

\* a call that changes the graph and returns `this`: `tops` and `bottoms` are the
\* keys it names, `requests` the associations it asks for
Mutate(G, tops, bottoms, requests) ==
  /\ Idle
  /\ RoomFor(requests)
  /\ NodesWithinBound(G)
  /\ graph' = G
  /\ declared' = IF noRemoval
                 THEN [top |-> declared.top \cup tops, bottom |-> declared.bottom \cup bottoms]
                 ELSE declared
  /\ assoc' = IF noRemoval THEN Logged(assoc, requests) ELSE assoc
  /\ inserted' = IF noRemoval THEN FirstSeen(inserted, requests) ELSE inserted

----------------------------------------------------------------------------
(* Initial state and actions *)

NoHistory == [level \in Levels |-> [k \in TopKeys |-> <<>>]]

Init ==
  /\ graph = NewGraph
  /\ uuids = 0
  /\ result = NoResult
  /\ pc = "idle"
  /\ cursor = Null
  /\ returns = <<>>
  /\ calls = 0
  /\ declared = [top |-> {}, bottom |-> {}]
  /\ assoc = NoHistory
  /\ inserted = <<>>
  /\ noRemoval = TRUE

AddTop ==
  \E key \in Keys :
    /\ Mutate(addTop(graph, key), {key}, {}, <<>>)
    /\ UNCHANGED <<uuids, result, pc, cursor, returns, calls, noRemoval>>

AddBottom ==
  \E key \in Keys :
    /\ Mutate(addBottom(graph, key), {}, {key}, <<>>)
    /\ UNCHANGED <<uuids, result, pc, cursor, returns, calls, noRemoval>>

AddElementTop ==
  \E key \in Keys, element \in ElementArgs :
    /\ Mutate(addElementTop(graph, key, element), {key}, {},
              RequestsFor("top", key, element.v))
    /\ UNCHANGED <<uuids, result, pc, cursor, returns, calls, noRemoval>>

AddElementBottom ==
  \E key \in Keys, element \in ElementArgs :
    /\ Mutate(addElementBottom(graph, key, element), {}, {key},
              RequestsFor("bottom", key, element.v))
    /\ UNCHANGED <<uuids, result, pc, cursor, returns, calls, noRemoval>>

Add ==
  \E options \in AddOptions :
    /\ Mutate(add(graph, options), NamedKeys(options.top.v), NamedKeys(options.bottom.v),
              RequestsOfAdd(options))
    /\ UNCHANGED <<uuids, result, pc, cursor, returns, calls, noRemoval>>

AddAll ==
  \E optionsArr \in AddAllArgs :
    /\ Mutate(addAll(graph, optionsArr),
              UNION {NamedKeys(optionsArr[i].top.v) : i \in 1..Len(optionsArr)},
              UNION {NamedKeys(optionsArr[i].bottom.v) : i \in 1..Len(optionsArr)},
              RequestsOfAddAll(optionsArr))
    /\ UNCHANGED <<uuids, result, pc, cursor, returns, calls, noRemoval>>

GetTop ==
  \E key \in Keys \cup {UuidNames[1]} :
    /\ Idle
    /\ result' = getTop(graph, key)
    /\ UNCHANGED <<graph, uuids, pc, cursor, returns, calls, declared, assoc, inserted, noRemoval>>

GetBottom ==
  \E key \in BottomKeys :
    /\ Idle
    /\ result' = getBottom(graph, key)
    /\ UNCHANGED <<graph, uuids, pc, cursor, returns, calls, declared, assoc, inserted, noRemoval>>

GetSiblings ==
  \E level \in Levels, key \in Keys :
    /\ Idle
    /\ result' = getSiblings(graph, level, key)
    /\ UNCHANGED <<graph, uuids, pc, cursor, returns, calls, declared, assoc, inserted, noRemoval>>

\* getAll(): `for (const element of this)` obtains the iterator
GetAllStart ==
  /\ Idle
  /\ pc' = "walking"
  /\ cursor' = graph.head
  /\ returns' = <<>>
  /\ calls' = 0
  /\ UNCHANGED <<graph, uuids, result, declared, assoc, inserted, noRemoval>>

\* one call of next() by the for-of loop: {done: !!next, value}, after `next`
\* has moved on; a done result ends the loop and getAll returns `returns`
IteratorNext ==
  /\ pc = "walking"
  /\ calls < MaxCalls
  /\ LET value == IF cursor = Null THEN Undefined ELSE graph.heap[cursor].element
         next == IF cursor = Null THEN Null ELSE graph.heap[cursor].next
         done == next # Null
     IN IF done
        THEN /\ pc' = "idle"
             /\ result' = Ok("getAll", <<>>, returns)
             /\ cursor' = Null
             /\ returns' = <<>>
             /\ calls' = 0
        ELSE /\ pc' = "walking"
             /\ result' = result
             /\ cursor' = next
             /\ returns' = Append(returns, value)
             /\ calls' = calls + 1
  /\ UNCHANGED <<graph, uuids, declared, assoc, inserted, noRemoval>>

PmAdd ==
  \E mods \in ModArgs :
    /\ uuids < MaxGroups
    /\ uuids < Len(UuidNames)
    /\ Mutate(pmAdd(graph, uuid(uuids), mods), {uuid(uuids)}, NamesRead(mods),
              RequestsOfPmAdd(uuid(uuids), mods))
    /\ uuids' = uuids + 1
    /\ result' = IF NamesReadable(mods) THEN NoResult ELSE Thrown("add", mods)
    /\ UNCHANGED <<pc, cursor, returns, calls, noRemoval>>

PmGet ==
  \E id \in TopKeys \ {""} :
    /\ Idle
    /\ result' = pmGet(graph, id)
    /\ UNCHANGED <<graph, uuids, pc, cursor, returns, calls, declared, assoc, inserted, noRemoval>>

PmGetByMod ==
  \E names \in NameArgs :
    /\ Idle
    /\ result' = getByMod(graph, names)
    /\ UNCHANGED <<graph, uuids, pc, cursor, returns, calls, declared, assoc, inserted, noRemoval>>

PmRemove ==
  \E n \in 0..(uuids - 1) :
    /\ Idle
    /\ graph' = pmRemove(graph, uuid(n))
    /\ result' = Ok("remove", <<uuid(n)>>, <<>>)
    /\ UNCHANGED <<uuids, pc, cursor, returns, calls, declared, assoc, inserted, noRemoval>>

\* the caller has used the returned value (or caught the error) and goes on
Return ==
  /\ result # NoResult
  /\ pc = "idle"
  /\ result' = NoResult
  /\ UNCHANGED <<graph, uuids, pc, cursor, returns, calls, declared, assoc, inserted, noRemoval>>

\* node.delete() on a node the caller holds (graph.head, a slot's `to`, ...);
\* on a node deleted before, `this.top.forEach` throws on null
Delete ==
  \E id \in 1..Len(graph.heap) :
    /\ Idle
    /\ IF graph.heap[id].element = NullElement
       THEN graph' = graph /\ result' = Thrown("delete", <<id>>)
       ELSE graph' = delete(graph, id) /\ result' = NoResult
    /\ noRemoval' = FALSE
    /\ declared' = [top |-> {}, bottom |-> {}]
    /\ assoc' = NoHistory
    /\ inserted' = <<>>
    /\ UNCHANGED <<uuids, pc, cursor, returns, calls>>

\* callers of the Graph: declarations, associations and lookups by key
Next ==
  \/ AddTop \/ AddBottom \/ AddElementTop \/ AddElementBottom \/ Add \/ AddAll
  \/ GetTop \/ GetBottom \/ Return

Spec == Init /\ [][Next]_vars

\* callers of the Graph who only declare and associate
NextInsert ==
  \/ AddTop \/ AddBottom \/ AddElementTop \/ AddElementBottom \/ Add

SpecInsert == Init /\ [][NextInsert]_vars

\* callers of the Graph who ask for siblings
NextSiblings ==
  \/ AddTop \/ AddBottom \/ AddElementTop \/ AddElementBottom \/ Add \/ AddAll
  \/ GetSiblings \/ Return

SpecSiblings == Init /\ [][NextSiblings]_vars

\* callers of the Graph who walk all its elements
NextGetAll ==
  \/ AddTop \/ AddBottom \/ AddElementTop \/ AddElementBottom \/ Add \/ AddAll
  \/ GetAllStart \/ IteratorNext \/ Return

SpecGetAll == Init /\ [][NextGetAll]_vars

\* callers of the PackageManager, who may also reach its public `map`
NextPm ==
  \/ PmAdd \/ PmGet \/ PmGetByMod \/ PmRemove \/ AddElementBottom \/ GetBottom \/ Return

SpecPm == Init /\ [][NextPm]_vars

\* callers of the Graph who also delete nodes
NextDelete ==
  \/ AddElementTop \/ AddElementBottom \/ Delete \/ Return

SpecDelete == Init /\ [][NextDelete]_vars

----------------------------------------------------------------------------
(* Properties *)

\* the elements of a sequence, as a set
Range(seq) == {seq[i] : i \in 1..Len(seq)}

\* the nodes a walk from head along `next` visits, in order (at most `fuel` of them)
RECURSIVE ChainFrom(_, _, _)
ChainFrom(G, id, fuel) ==
  IF id = Null \/ fuel = 0 THEN <<>>
  ELSE <<id>> \o ChainFrom(G, G.heap[id].next, fuel - 1)

Chain(G) == ChainFrom(G, G.head, Len(G.heap))

\* C1: after any sequence of insertions getAll() returns exactly the distinct
\* stored values, each once, in the order of their first insertion
C1_GetAllInsertionOrder ==
  (result.op = "getAll" /\ noRemoval) => result.value = inserted

\* C2: the walk getAll() starts is finite and bounded by the size of the graph:
\* it calls next() at most once per stored node, and once more to learn it is done
C2_GetAllTerminates ==
  pc = "walking" => calls <= Len(Chain(graph)) + 1

\* C3: without removals, a key's lookup returns exactly the values callers
\* associated under that key in that namespace, in the order of the calls;
\* a lookup that fails is of a key nothing was associated under
C3_LookupMatchesAssociations ==
  noRemoval =>
    /\ (result.op = "getTop" /\ result.status = "ok") => result.value = assoc.top[result.arg[1]]
    /\ (result.op = "getTop" /\ result.status = "error") => assoc.top[result.arg[1]] = <<>>
    /\ (result.op = "getBottom" /\ result.status = "ok")
         => result.value = assoc.bottom[result.arg[1]]
    /\ (result.op = "getBottom" /\ result.status = "error")
         => assoc.bottom[result.arg[1]] = <<>>

\* a lookup has returned two values in an order other than that of the chain
C3_Witness ==
  /\ result.op \in {"getTop", "getBottom"}
  /\ result.status = "ok"
  /\ Len(result.value) = 2
  /\ Len(inserted) >= 2
  /\ result.value[1] = inserted[2]
  /\ result.value[2] = inserted[1]

\* C4: every distinct value occupies at most one node of the chain, and every
\* value inserted has its node there
C4_OneNodePerValue ==
  noRemoval =>
    /\ \A i, j \in 1..Len(graph.heap) :
         graph.heap[i].element = graph.heap[j].element => i = j
    /\ Len(Chain(graph)) = Len(inserted)

\* a value stored in the middle of the chain has been associated again
C4_Witness ==
  /\ noRemoval
  /\ \E i \in 1..Len(graph.heap) :
       /\ i # graph.head
       /\ i # graph.tail
       /\ Len(graph.heap[i].top) + Len(graph.heap[i].bottom) >= 2

\* C5: a lookup of a key never declared in that namespace ends in an error, and
\* a lookup that ends in an error leaves the graph as it was
C5_UnknownKeyFails ==
  [][(result.op = "none" /\ result'.op \in {"getTop", "getBottom"}) =>
       /\ (result'.op = "getTop" /\ result'.arg[1] \notin declared.top)
            => result'.status = "error"
       /\ (result'.op = "getBottom" /\ result'.arg[1] \notin declared.bottom)
            => result'.status = "error"
       /\ result'.status = "error" => graph' = graph]_vars

\* a lookup has failed on a key that is declared in the other namespace only
C5_Witness ==
  /\ result.op = "getTop"
  /\ result.status = "error"
  /\ result.arg[1] \in declared.bottom
  /\ graph.head # Null

\* C8: an element never appears in its own siblings list
C8_NoSelfSibling ==
  (result.op = "getSiblings" /\ result.status = "ok") =>
    \A i \in 1..Len(result.value) :
      result.value[i].data \notin Range(result.value[i].siblings)

\* C9: when A and B were both associated under one bottom key, B is among the
\* siblings computed for A (through the bottom entries of A's node), and so,
\* A and B being any two such values, A is among those computed for B
C9_SiblingSymmetry ==
  (noRemoval /\ result.op = "getSiblings" /\ result.status = "ok" /\ result.arg[1] = "top") =>
    \A i \in 1..Len(result.value) :
      \A k \in BottomKeys :
        result.value[i].data \in Range(assoc.bottom[k])
          => Range(assoc.bottom[k]) \subseteq Range(result.value[i].siblings)

\* two values under one bottom key have each been returned with the other
\* among its siblings
C9_Witness ==
  /\ result.op = "getSiblings"
  /\ result.status = "ok"
  /\ result.arg[1] = "top"
  /\ \E i, j \in 1..Len(result.value) :
       /\ result.value[i].data # result.value[j].data
       /\ result.value[j].data \in Range(result.value[i].siblings)
       /\ result.value[i].data \in Range(result.value[j].siblings)

\* C6: after PackageManager.remove(id) the group's top key can no longer be looked up
C6_RemovedGroupGone ==
  result.op = "remove" => result.arg[1] \notin DOMAIN graph.top

\* the nodes that TwoWayNode.delete has run on, and the others
Deleted(G) == {i \in 1..Len(G.heap) : G.heap[i].element = NullElement}
Remaining(G) == (1..Len(G.heap)) \ Deleted(G)

\* C7: deleting a node leaves no reference to it in head, tail or a remaining
\* node's next / prev, and leaves every remaining node reachable from head and
\* found by the identity lookup
C7_DeleteKeepsChain ==
  \A d \in Deleted(graph) :
    /\ graph.head # d
    /\ graph.tail # d
    /\ \A n \in Remaining(graph) :
         /\ graph.heap[n].next # d
         /\ graph.heap[n].prev # d
         /\ n \in Range(Chain(graph))
         /\ find(graph, graph.heap[n].element) = n

\* C10: no association call ever creates a key index entry for the empty string
C10_EmptyKeySkipped ==
  "" \notin DOMAIN graph.top /\ "" \notin DOMAIN graph.bottom

\* C11: every group added so far is found under its own identifier and holds
\* exactly the elements of its call, in the order given, whatever was added before
\* or since; each element of a call that returned is among the elements the
\* bottom key of its name looks up to; and an identifier uuid() has yet to return
\* is no top key of the graph
C11_GroupHoldsItsElements ==
  /\ \A n \in 0..(uuids - 1) :
       LET id == uuid(n)
           mods == assoc.top[id]
       IN /\ pmGet(graph, id).status = "ok"
          /\ pmGet(graph, id).value = mods
          /\ NamesReadable(mods) =>
               \A i \in 1..Len(mods) :
                 /\ getBottom(graph, Name(mods[i])).status = "ok"
                 /\ mods[i] \in Range(getBottom(graph, Name(mods[i])).value)
  /\ \A n \in uuids..(Len(UuidNames) - 1) : uuid(n) \notin DOMAIN graph.top

\* a second, different group has been added and looked up by its identifier
C11_Witness ==
  /\ uuids = 2
  /\ result.op = "get"
  /\ result.arg = <<uuid(1)>>
  /\ result.status = "ok"
  /\ result.value # <<>>
  /\ graph.top[uuid(0)] # <<>>
  /\ result.value # Elements(graph, graph.top[uuid(0)])

\* C12: getByMod, given names that are all declared bottom keys, returns
\* normally; what it returns holds every element associated under at least one
\* of the names, nothing else, and no element twice
C12_GetByModUnion ==
  (noRemoval /\ result.op = "getByMod") =>
    /\ (\A i \in 1..Len(result.arg) : result.arg[i] \in declared.bottom)
         => result.status = "ok"
    /\ result.status = "ok" =>
         /\ Range(result.value)
              = UNION {Range(assoc.bottom[result.arg[i]]) : i \in 1..Len(result.arg)}
         /\ \A i, j \in 1..Len(result.value) : result.value[i] = result.value[j] => i = j

\* getByMod was given a name twice, of a key that holds one element twice and
\* another once, and has returned the two elements
C12_Witness ==
  /\ result.op = "getByMod"
  /\ result.status = "ok"
  /\ Len(result.arg) = 2
  /\ result.arg[1] = result.arg[2]
  /\ Len(result.value) = 2
  /\ Len(assoc.bottom[result.arg[1]]) = 3

\* whether the sequence s begins with the sequence p
IsPrefix(p, s) == Len(p) <= Len(s) /\ SubSeq(s, 1, Len(p)) = p

\* C13: declaring a key that its namespace already holds changes nothing, by
\* addTop / addBottom, by the declaration an associate call or add implies when
\* given no value; given a value, they keep the key's edges and their order and
\* put the new edge after them
C13_RedeclareIsNoOp ==
  /\ \A k \in DOMAIN graph.top :
       /\ addTop(graph, k) = graph
       /\ addElementTop(graph, k, Arr(<<>>)) = graph
       /\ add(graph, [top |-> One(k), bottom |-> Absent, element |-> Arr(<<>>)]) = graph
       /\ \A v \in Vals :
            /\ IsPrefix(graph.top[k], addElementTop(graph, k, One(v)).top[k])
            /\ IsPrefix(graph.top[k],
                        add(graph, [top |-> One(k), bottom |-> Absent, element |-> One(v)]).top[k])
  /\ \A k \in DOMAIN graph.bottom :
       /\ addBottom(graph, k) = graph
       /\ addElementBottom(graph, k, Arr(<<>>)) = graph
       /\ add(graph, [top |-> Absent, bottom |-> One(k), element |-> Arr(<<>>)]) = graph
       /\ \A v \in Vals :
            /\ IsPrefix(graph.bottom[k], addElementBottom(graph, k, One(v)).bottom[k])
            /\ IsPrefix(graph.bottom[k],
                        add(graph, [top |-> Absent, bottom |-> One(k), element |-> One(v)]).bottom[k])

\* a key of both namespaces has been associated under again and again: its top
\* entry holds the edges of more than one call
C13_Witness ==
  /\ "a" \in DOMAIN graph.top
  /\ "a" \in DOMAIN graph.bottom
  /\ Len(graph.top["a"]) >= 3
  /\ graph.bottom["a"] # <<>>

\* C14: the lookup of a key that is declared in its namespace and has nothing
\* associated under it returns the empty sequence, and does not fail
C14_DeclaredEmptyKey ==
  noRemoval =>
    /\ (result.op = "getTop" /\ result.arg[1] \in declared.top
          /\ assoc.top[result.arg[1]] = <<>>)
         => (result.status = "ok" /\ result.value = <<>>)
    /\ (result.op = "getBottom" /\ result.arg[1] \in declared.bottom
          /\ assoc.bottom[result.arg[1]] = <<>>)
         => (result.status = "ok" /\ result.value = <<>>)

\* a bottom key with no elements has been looked up while the top key of the
\* same string holds elements
C14_Witness ==
  /\ result.op = "getBottom"
  /\ result.status = "ok"
  /\ result.value = <<>>
  /\ result.arg[1] \in declared.bottom
  /\ result.arg[1] \in DOMAIN graph.top
  /\ graph.top[result.arg[1]] # <<>>

\* how often x occurs in the sequence seq
Count(x, seq) == Cardinality({i \in 1..Len(seq) : seq[i] = x})

\* C15: a call that associates, under a key, a value already associated under
\* that key appends one more edge to the value's one node: the key's lookup
\* returns the value once more than before, and so at least twice, while the
\* chain and the nodes stay as they were
C15_SecondEdgeAppended ==
  [][\A level \in Levels, k \in Keys, v \in Vals :
       (/\ noRemoval
        /\ assoc'[level][k] = Append(assoc[level][k], v)
        /\ v \in Range(assoc[level][k]))
         => /\ Slot(graph', level)[k] = Append(Slot(graph, level)[k], find(graph, v))
            /\ Count(v, Elements(graph', Slot(graph', level)[k]))
                 = Count(v, Elements(graph, Slot(graph, level)[k])) + 1
            /\ Count(v, Elements(graph', Slot(graph', level)[k])) >= 2
            /\ Len(graph'.heap) = Len(graph.heap)
            /\ Chain(graph') = Chain(graph)
            /\ Cardinality({i \in 1..Len(graph'.heap) : graph'.heap[i].element = v}) = 1]_vars

\* one value has been associated under one key by more than one call, and is
\* the only node of the chain
C15_Witness ==
  /\ "a" \in DOMAIN graph.top
  /\ Len(graph.top["a"]) >= 3
  /\ Len(graph.heap) = 1
  /\ graph.head = graph.tail

\* C16: the chain is a well-formed doubly linked list: head is null exactly
\* when tail is; head has no predecessor and tail no successor; next and prev
\* are inverse to each other; the walk from head along next visits every node
\* once, as many nodes as there are distinct stored values, and ends at tail
C16_ChainWellFormed ==
  LET heap == graph.heap
      chain == Chain(graph)
      values == {heap[i].element : i \in 1..Len(heap)}
  IN /\ (graph.head = Null) <=> (graph.tail = Null)
     /\ graph.head # Null =>
          /\ heap[graph.head].prev = Null
          /\ heap[graph.tail].next = Null
          /\ chain[1] = graph.head
          /\ chain[Len(chain)] = graph.tail
     /\ \A i \in 1..Len(heap) :
          /\ heap[i].next # Null => heap[heap[i].next].prev = i
          /\ heap[i].prev # Null => heap[heap[i].prev].next = i
     /\ Len(chain) = Cardinality(values)
     /\ \A i, j \in 1..Len(chain) : chain[i] = chain[j] => i = j
     /\ Range(chain) = 1..Len(heap)

\* three values are chained and one of them has been associated again
C16_Witness ==
  /\ Len(Chain(graph)) = 3
  /\ TotalEdges(graph) > 3
  /\ graph.heap[graph.tail].prev # graph.head

\* C17: for each namespace, key and node, the node occurs in the key's entry as
\* often as the key occurs in the node's list for that namespace, and a node
\* lists no key its namespace does not hold
C17_EdgesReciprocal ==
  \A level \in Levels :
    \A n \in 1..Len(graph.heap) :
      /\ Range(NodeSide(graph.heap[n], level)) \subseteq DOMAIN Slot(graph, level)
      /\ \A k \in DOMAIN Slot(graph, level) :
           Count(n, Slot(graph, level)[k]) = Count(k, NodeSide(graph.heap[n], level))

\* a node is held twice by one top key and also by a bottom key
C17_Witness ==
  \E n \in 1..Len(graph.heap) :
    /\ \E k \in DOMAIN graph.top : Count(n, graph.top[k]) = 2
    /\ graph.heap[n].bottom # <<>>
    /\ Len(graph.heap) >= 2

\* C18: when delete() has run on a node, no key's entry of either namespace
\* holds the node, no key looks up to the value the node held, and every entry
\* is what it was with the occurrences of the node taken out
C18_DeleteSeversEdges ==
  [][\A id \in 1..Len(graph.heap) :
       (/\ graph.heap[id].element # NullElement
        /\ Len(graph'.heap) = Len(graph.heap)
        /\ graph'.heap[id].element = NullElement)
         => \A level \in Levels :
              /\ DOMAIN Slot(graph', level) = DOMAIN Slot(graph, level)
              /\ \A k \in DOMAIN Slot(graph, level) :
                   /\ id \notin Range(Slot(graph', level)[k])
                   /\ graph.heap[id].element
                        \notin Range(Elements(graph', Slot(graph', level)[k]))
                   /\ Slot(graph', level)[k]
                        = SelectSeq(Slot(graph, level)[k], LAMBDA n : n # id)]_vars

\* C19: a call leaves alone every key's entry it associates nothing under, in
\* both namespaces, the key of the same string in the other namespace included;
\* a key appears in a namespace only when the call names it there; and the nodes
\* chained before the call keep their places in the chain
C19_AssociationFrame ==
  [][noRemoval =>
       /\ \A level \in Levels :
            /\ \A k \in DOMAIN Slot(graph, level) :
                 /\ k \in DOMAIN Slot(graph', level)
                 /\ assoc'[level][k] = assoc[level][k]
                      => Slot(graph', level)[k] = Slot(graph, level)[k]
            /\ \A k \in DOMAIN Slot(graph', level) :
                 k \notin DOMAIN Slot(graph, level)
                   => (k \in declared'[level] /\ k \notin declared[level])
       /\ IsPrefix(Chain(graph), Chain(graph'))]_vars

\* one key string holds different elements in the two namespaces, beside
\* another key that holds elements too
C19_Witness ==
  /\ "a" \in DOMAIN graph.top
  /\ "a" \in DOMAIN graph.bottom
  /\ "" \in DOMAIN graph.top
  /\ graph.top["a"] # <<>>
  /\ graph.bottom["a"] # <<>>
  /\ graph.top[""] # <<>>
  /\ graph.top["a"] # graph.bottom["a"]
  /\ Len(Chain(graph)) >= 2

\* C20: a call of PackageManager.add or getByMod that ends in an error leaves
\* the graph exactly as it was before the call
C20_NoPartialFailure ==
  [][(/\ result.op = "none"
      /\ result'.op \in {"add", "getByMod"}
      /\ result'.status = "error")
       => graph' = graph]_vars

====
